---- MODULE Spec2Model ----
(***************************************************************************)
(* The log-tail engine of connector/app.go together with the part of the   *)
(* frontend (App.svelte) that drives it.                                   *)
(*                                                                         *)
(* Two goroutines run ReadFile passes: "fe", the goroutine of a bound      *)
(* method call issued by the frontend (SetFileName), and "wg", the         *)
(* goroutine started by WatchFile that receives the fsnotify events.       *)
(* lastOffset is a package-level variable shared by both, with no lock.    *)
(*                                                                         *)
(* A file is a sequence of bytes; a path is the pair <<directory, name>>   *)
(* that the code writes  directory + "\\" + name.                          *)
(*                                                                         *)
(* Spec, SpecDel and SpecStop run the application from its start with an   *)
(* empty list of rules, so that a pass hands its lines to evaluateLine and *)
(* nothing more happens to them; SpecErr runs it from the end of init().   *)
(* SpecEval follows one pass of the watcher goroutine line by line and     *)
(* rule by rule, with the rules, the lines and the answers of the webhook  *)
(* drawn from small sets.                                                  *)
(***************************************************************************)
EXTENDS Integers, Sequences, FiniteSets, TLC

\* ------------------------------------------------------------------ bounds
MaxBytes == 4      \* bytes held by the file system
MaxPasses == 3     \* ReadFile calls over a whole run
MaxEvents == 1     \* fsnotify events waiting in watcher.Events

NL == "\n"
CR == "\r"
LogLine == <<"a", NL>>             \* the line the log writer writes, over and over
Dirs == {"d1", "d2"}
Names == {"f1", "f2"}
\* the log files: two in the first directory (a rotation), one in the second
Paths == {<<"d1", "f1">>, <<"d1", "f2">>, <<"d2", "f1">>}
Missing == <<"missing">>           \* fs value of a path that has no file
Procs == {"fe", "wg"}
NoPath == <<"", "">>
NoPass == [path |-> NoPath, off |-> -1]

VARIABLES
  fs,              \* the file system: path -> bytes, or Missing
  order,           \* per directory, its files by ModTime, newest last
  LogPath,         \* a.SaveData.LogPath
  targetFileName,  \* a.targetFileName
  lastOffset,      \* the package variable lastOffset
  running,         \* FALSE once log.Fatal has ended the process
  watching,        \* the directory watcher.Add subscribed, "" before WatchFile
  events,          \* watcher.Events: paths of the events not yet received
  pc,              \* per goroutine, its position in ReadFile
  ppath,           \* per goroutine, ReadFile's argument path
  poff,            \* per goroutine, the offset file.Seek(lastOffset, 0) set
  pend,            \* per goroutine, the file position after the scan loop
  pid,             \* per goroutine, the number of its current (or last) pass
  fpc,             \* the frontend's position in init / getLogFiles
  inInit,          \* TRUE until init() has called WatchFile
  sdPath,          \* the frontend's saveData.path
  logFileName,     \* the frontend's logFileName
  evaluated,       \* history: every line handed to evaluateLine, in order
  npass,           \* history: the number of ReadFile calls so far
  afterReset,      \* history: ResetOffset was called and no pass began since
  quiet,           \* history: the last completed pass, while nothing disturbed it
  inRow,           \* history: goroutines whose pass began while quiet held
  epoch,           \* history: the passes since the cursor was last zeroed
  lastTarget,      \* history: the path of the pass that began last
  Settings,        \* a.SaveData.Settings: the rules, in order
  tokens,          \* the lines the scan loop has still to hand to evaluateLine
  line,            \* evaluateLine's argument
  ri,              \* the index of the rule evaluateLine's loop is at
  epc,             \* the position in the scan loop and in evaluateLine
  posts,           \* history: the requests http.Post has sent, with what came back
  msgs,            \* history: the messages HttpPost has returned, in order
  endpoint,        \* the webhook server: "up", or "silent" (it never answers)
  werr,            \* history: "seen" once an error came from watcher.Errors
  stopRequested,   \* the user has asked for the watch to stop
  userID,          \* a.userID of the earlier version of the application
  ranged,          \* the slice that the range statement of evaluateLine has
                   \* evaluated and goes through
  updAt,           \* history: the number of passes begun when UpdateSetting
                   \* was last called, -1 before its first call
  retry            \* a call of withRetry of the server: its options, its
                   \* loop counter, where it is, and the history of what the
                   \* operation came back with and of the delays slept

vars == <<fs, order, LogPath, targetFileName, lastOffset, running, watching,
          events, pc, ppath, poff, pend, pid, fpc, inInit, sdPath,
          logFileName, evaluated, npass, afterReset, quiet, inRow, epoch,
          lastTarget, Settings, tokens, line, ri, epc, posts, msgs, endpoint,
          werr, stopRequested, userID, ranged, updAt, retry>>

envVars == <<fs, order>>
appVars == <<LogPath, targetFileName>>
passVars == <<pc, ppath, poff, pend, pid>>
feVars == <<fpc, inInit, sdPath, logFileName>>
evalVars == <<Settings, tokens, line, ri, epc, posts, msgs, endpoint, userID,
              ranged, updAt, retry>>
ctlVars == <<werr, stopRequested>>

\* DEFAULT_RETRY_OPTIONS of the server's db-utils.ts
DefaultMaxRetries == 3
DefaultBaseDelay == 1000
DefaultMaxDelay == 10000
DefaultBackoffMultiplier == 2

DefaultRetryOptions ==
  [maxRetries |-> DefaultMaxRetries, baseDelay |-> DefaultBaseDelay,
   maxDelay |-> DefaultMaxDelay, backoffMultiplier |-> DefaultBackoffMultiplier]

\* withRetry has not been called
NoRetry ==
  [opts |-> DefaultRetryOptions, attempt |-> 0, at |-> "idle", outs |-> <<>>,
   delays |-> <<>>, thrown |-> <<"none">>]

\* ------------------------------------------------------------ pure helpers
Exists(path) == path \in Paths /\ fs[path] # Missing
Size(path) == IF Exists(path) THEN Len(fs[path]) ELSE 0

RECURSIVE SumLen(_)
SumLen(S) ==
  IF S = {} THEN 0
  ELSE LET x == CHOOSE y \in S : TRUE IN Size(x) + SumLen(S \ {x})
TotalBytes == SumLen(Paths)

\* the index of the first NL of data, 0 when there is none (bytes.IndexByte)
RECURSIVE IndexNL(_, _)
IndexNL(data, i) ==
  IF i > Len(data) THEN 0
  ELSE IF data[i] = NL THEN i ELSE IndexNL(data, i + 1)

\* bufio's dropCR: a line loses one trailing carriage return
dropCR(data) ==
  IF Len(data) > 0 /\ data[Len(data)] = CR
  THEN SubSeq(data, 1, Len(data) - 1)
  ELSE data

\* a scanner that yields the lines last to first
RECURSIVE ScanLinesReversed(_)
ScanLinesReversed(data) ==
  IF data = <<>> THEN <<>>
  ELSE LET i == IndexNL(data, 1) IN
       IF i = 0 THEN <<dropCR(data)>>
       ELSE ScanLinesReversed(SubSeq(data, i + 1, Len(data)))
            \o <<dropCR(SubSeq(data, 1, i - 1))>>

\* the tokens the loop  for scanner.Scan() { ... scanner.Text() }  yields on
\* the bytes from the seek position to end of file (bufio.ScanLines): every
\* newline-terminated line and, at end of file, the unterminated rest if it
\* is not empty
RECURSIVE ScanLines(_)
ScanLines(data) ==
  IF data = <<>> THEN <<>>
  ELSE LET i == IndexNL(data, 1) IN
       IF i = 0 THEN <<dropCR(data)>>
       ELSE <<dropCR(SubSeq(data, 1, i - 1))>>
            \o ScanLines(SubSeq(data, i + 1, Len(data)))

\* the bytes a read from offset off returns: none at or beyond end of file
ReadFrom(content, off) ==
  IF off >= Len(content) THEN <<>> ELSE SubSeq(content, off + 1, Len(content))

\* file.Seek(0, io.SeekCurrent) after the scan loop: the position moved by
\* the bytes read, so it stays where the seek put it when nothing was read
PosAfterScan(content, off) == off + Len(ReadFrom(content, off))

\* a reader that seeks one byte past the cursor
SeekOffsetNext(off) == off + 1

\* a reader that forgets the cursor and seeks to the start of the file
SeekOffsetFromStart(off) == 0

\* the offset ReadFile seeks to
SeekOffset(off) == off

\* GetNewestFileName's choice: the .txt file of the directory with the latest
\* ModTime among those of size > 0, "" when there is none
RECURSIVE NewestIn(_, _)
NewestIn(d, ord) ==
  IF ord = <<>> THEN ""
  ELSE LET n == ord[Len(ord)] IN
       IF Size(<<d, n>>) > 0 THEN n
       ELSE NewestIn(d, SubSeq(ord, 1, Len(ord) - 1))
Newest(d) == IF d \in Dirs THEN NewestIn(d, order[d]) ELSE ""

Without(seq, x) == SelectSeq(seq, LAMBDA y : y # x)

InPass(p) == pc[p] # "none"
\* p is between its seek and its store of lastOffset
Reading(p) == pc[p] \in {"scan", "store"}
Other(p) == IF p = "fe" THEN "wg" ELSE "fe"

\* the history of a cursor just zeroed: it is sound when no pass is under way
\* that could still store an older position
NewEpoch ==
  [start |-> Len(evaluated),
   ok |-> \A p \in Procs : ~Reading(p),
   path |-> NoPath]

\* the lines pass number k handed to evaluateLine
LinesOfPass(k) ==
  LET sel == SelectSeq(evaluated, LAMBDA e : e.pass = k)
  IN [i \in 1..Len(sel) |-> sel[i].line]

\* -------------------------------------------------------------------- Init
Init ==
  /\ fs = [p \in Paths |-> Missing]
  /\ order = [d \in Dirs |-> <<>>]
  /\ LogPath = ""
  /\ targetFileName = ""
  /\ lastOffset = 0
  /\ running = TRUE
  /\ watching = ""
  /\ events = <<>>
  /\ pc = [p \in Procs |-> "none"]
  /\ ppath = [p \in Procs |-> <<"", "">>]
  /\ poff = [p \in Procs |-> 0]
  /\ pend = [p \in Procs |-> 0]
  /\ pid = [p \in Procs |-> 0]
  /\ fpc = "load"
  /\ inInit = TRUE
  /\ sdPath = ""
  /\ logFileName = ""
  /\ evaluated = <<>>
  /\ npass = 0
  /\ afterReset = FALSE
  /\ quiet = NoPass
  /\ inRow = {}
  /\ epoch = [start |-> 0, ok |-> TRUE, path |-> NoPath]
  /\ lastTarget = NoPath
  /\ Settings = <<>>
  /\ tokens = <<>>
  /\ line = <<>>
  /\ ri = 0
  /\ epc = "idle"
  /\ posts = <<>>
  /\ msgs = <<>>
  /\ endpoint = "up"
  /\ werr = "none"
  /\ stopRequested = FALSE
  /\ userID = <<>>
  /\ ranged = <<>>
  /\ updAt = -1
  /\ retry = NoRetry

\* ------------------------------------------------------- the environment
\* The log writer appends the next byte of its line to a file of a directory,
\* creating the file when it is missing (a write may end anywhere in a line);
\* fsnotify reports the write when the directory is the subscribed one.
NextByte(path) == LogLine[(Size(path) % Len(LogLine)) + 1]

WriteByte(path) ==
  /\ UNCHANGED <<evalVars, ctlVars>>
  /\ running
  /\ TotalBytes < MaxBytes
  /\ watching = path[1] => Len(events) < MaxEvents
  /\ fs' = [fs EXCEPT ![path] = IF Exists(path) THEN Append(fs[path], NextByte(path))
                                ELSE <<NextByte(path)>>]
  /\ order' = [order EXCEPT ![path[1]] = Append(Without(@, path[2]), path[2])]
  /\ events' = IF watching = path[1] THEN Append(events, path) ELSE events
  /\ quiet' = IF quiet.path = path THEN NoPass ELSE quiet
  /\ inRow' = IF quiet.path = path THEN {} ELSE inRow
  /\ UNCHANGED <<appVars, lastOffset, running, watching, passVars, feVars,
                 evaluated, npass, afterReset, epoch, lastTarget>>

\* A file is deleted (one that no pass holds open); fsnotify reports it when
\* the directory is the subscribed one.
RemoveFile(path) ==
  /\ UNCHANGED <<evalVars, ctlVars>>
  /\ running
  /\ Exists(path)
  /\ \A p \in Procs : Reading(p) => ppath[p] # path
  /\ watching = path[1] => Len(events) < MaxEvents
  /\ fs' = [fs EXCEPT ![path] = Missing]
  /\ order' = [order EXCEPT ![path[1]] = Without(@, path[2])]
  /\ events' = IF watching = path[1] THEN Append(events, path) ELSE events
  /\ quiet' = IF quiet.path = path THEN NoPass ELSE quiet
  /\ inRow' = IF quiet.path = path THEN {} ELSE inRow
  /\ epoch' = [epoch EXCEPT !.ok = @ /\ epoch.path # path]
  /\ UNCHANGED <<appVars, lastOffset, running, watching, passVars, feVars,
                 evaluated, npass, afterReset, lastTarget>>

\* ------------------------------------------------------------- ReadFile
\* the call  a.ReadFile(path)  by goroutine p
CallReadFile(p, path) ==
  /\ npass < MaxPasses
  /\ npass' = npass + 1
  /\ pc' = [pc EXCEPT ![p] = "open"]
  /\ ppath' = [ppath EXCEPT ![p] = path]
  /\ pid' = [pid EXCEPT ![p] = npass + 1]
  /\ UNCHANGED <<poff, pend>>

\* os.Open and file.Seek(lastOffset, 0); log.Fatal when the file cannot be
\* opened (a path that names the directory itself opens, and then fails in
\* the scan loop with the same end: scanner.Err() and log.Fatal)
Open(p) ==
  /\ UNCHANGED <<evalVars, ctlVars>>
  /\ running
  /\ pc[p] = "open"
  /\ IF ~Exists(ppath[p])
     THEN /\ running' = FALSE
          /\ UNCHANGED <<pc, poff, afterReset, inRow, epoch, lastTarget>>
     ELSE /\ poff' = [poff EXCEPT ![p] = SeekOffset(lastOffset)]
          /\ pc' = [pc EXCEPT ![p] = "scan"]
          /\ afterReset' = FALSE
          /\ inRow' = IF quiet # NoPass /\ quiet.path = ppath[p]
                      THEN inRow \cup {p} ELSE inRow \ {p}
          /\ epoch' = [epoch EXCEPT
               !.ok = @ /\ ~Reading(Other(p))
                        /\ epoch.path \in {NoPath, ppath[p]},
               !.path = IF @ = NoPath THEN ppath[p] ELSE @]
          /\ lastTarget' = ppath[p]
          /\ UNCHANGED running
  /\ UNCHANGED <<envVars, appVars, lastOffset, watching, events, ppath, pend,
                 pid, feVars, evaluated, npass, quiet>>

\* the scan loop: every token goes to evaluateLine, in order
Scan(p) ==
  /\ UNCHANGED <<evalVars, ctlVars>>
  /\ running
  /\ pc[p] = "scan"
  /\ LET content == fs[ppath[p]]
         lines == ScanLines(ReadFrom(content, poff[p]))
     IN /\ evaluated' = evaluated \o
             [i \in 1..Len(lines) |->
                [pass |-> pid[p], path |-> ppath[p], line |-> lines[i]]]
        /\ pend' = [pend EXCEPT ![p] = PosAfterScan(content, poff[p])]
  /\ pc' = [pc EXCEPT ![p] = "store"]
  /\ UNCHANGED <<envVars, appVars, lastOffset, running, watching, events,
                 ppath, poff, pid, feVars, npass, afterReset, quiet, inRow,
                 epoch, lastTarget>>

\* lastOffset, err = file.Seek(0, io.SeekCurrent), and the return
Store(p) ==
  /\ UNCHANGED <<evalVars, ctlVars>>
  /\ running
  /\ pc[p] = "store"
  /\ lastOffset' = pend[p]
  /\ pc' = [pc EXCEPT ![p] = "none"]
  /\ fpc' = IF p = "fe" THEN (IF inInit THEN "watch" ELSE "idle") ELSE fpc
  /\ quiet' = IF ~InPass(Other(p)) /\ Size(ppath[p]) <= pend[p]
              THEN [path |-> ppath[p], off |-> pend[p]] ELSE NoPass
  /\ inRow' = IF ~InPass(Other(p)) /\ Size(ppath[p]) <= pend[p]
              THEN inRow \ {p} ELSE {}
  /\ UNCHANGED <<envVars, appVars, running, watching, events, ppath, poff,
                 pend, pid, inInit, sdPath, logFileName, evaluated, npass,
                 afterReset, epoch, lastTarget>>

\* ------------------------------------------------------------- the frontend
\* init(): LoadSetting reads setting.json into a.SaveData and returns it
LoadSetting(path) ==
  /\ UNCHANGED <<evalVars, ctlVars>>
  /\ running
  /\ fpc = "load"
  /\ LogPath' = path
  /\ sdPath' = path
  /\ fpc' = "glf"
  /\ UNCHANGED <<envVars, targetFileName, lastOffset, running, watching,
                 events, passVars, inInit, logFileName, evaluated, npass,
                 afterReset, quiet, inRow, epoch, lastTarget>>

\* getLogFiles up to the comparison of the file names: it returns at once
\* without a path, and else calls GetNewestFileName, which stores the name it
\* found in a.targetFileName
GetNewestFileName ==
  /\ UNCHANGED <<evalVars, ctlVars>>
  /\ running
  /\ fpc = "glf"
  /\ IF sdPath = ""
     THEN /\ fpc' = IF inInit THEN "watch" ELSE "idle"
          /\ UNCHANGED <<targetFileName, logFileName>>
     ELSE LET n == Newest(sdPath) IN
          /\ targetFileName' = IF n # "" THEN n ELSE targetFileName
          /\ logFileName' = n
          /\ fpc' = IF logFileName # n THEN "reset" ELSE "setfn"
  /\ UNCHANGED <<envVars, LogPath, lastOffset, running, watching, events,
                 passVars, inInit, sdPath, evaluated, npass, afterReset,
                 quiet, inRow, epoch, lastTarget>>

ResetOffset ==
  /\ UNCHANGED <<evalVars, ctlVars>>
  /\ running
  /\ fpc = "reset"
  /\ lastOffset' = 0
  /\ fpc' = "setfn"
  /\ afterReset' = TRUE
  /\ quiet' = NoPass
  /\ inRow' = {}
  /\ epoch' = NewEpoch
  /\ UNCHANGED <<envVars, appVars, running, watching, events, passVars,
                 inInit, sdPath, logFileName, evaluated, npass, lastTarget>>

SetFileName ==
  /\ UNCHANGED <<evalVars, ctlVars>>
  /\ running
  /\ fpc = "setfn"
  /\ targetFileName' = logFileName
  /\ CallReadFile("fe", <<LogPath, logFileName>>)
  /\ fpc' = "pass"
  /\ UNCHANGED <<envVars, LogPath, lastOffset, running, watching, events,
                 inInit, sdPath, logFileName, evaluated, afterReset, quiet,
                 inRow, epoch, lastTarget>>

\* WatchFile: the cursor is zeroed, the goroutine started and the directory
\* subscribed; log.Fatal when watcher.Add fails (no directory to watch)
WatchFile ==
  /\ UNCHANGED <<evalVars, ctlVars>>
  /\ running
  /\ fpc = "watch"
  /\ lastOffset' = 0
  /\ IF LogPath \in Dirs
     THEN watching' = LogPath /\ UNCHANGED running
     ELSE running' = FALSE /\ UNCHANGED watching
  /\ inInit' = FALSE
  /\ fpc' = "idle"
  /\ quiet' = NoPass
  /\ inRow' = {}
  /\ epoch' = NewEpoch
  /\ UNCHANGED <<envVars, appVars, events, passVars, sdPath, logFileName,
                 evaluated, npass, afterReset, lastTarget>>

\* setInterval(getLogFiles, ...)
Poll ==
  /\ UNCHANGED <<evalVars, ctlVars>>
  /\ running
  /\ fpc = "idle"
  /\ npass < MaxPasses
  /\ fpc' = "glf"
  /\ UNCHANGED <<envVars, appVars, lastOffset, running, watching, events,
                 passVars, inInit, sdPath, logFileName, evaluated, npass,
                 afterReset, quiet, inRow, epoch, lastTarget>>

\* getLogFolderPath: OpenFolderSelectWindow stores the picked directory, and
\* getLogFiles follows
OpenFolderSelectWindow(d) ==
  /\ UNCHANGED <<evalVars, ctlVars>>
  /\ running
  /\ fpc = "idle"
  /\ npass < MaxPasses
  /\ LogPath' = d
  /\ sdPath' = d
  /\ fpc' = "glf"
  /\ UNCHANGED <<envVars, targetFileName, lastOffset, running, watching,
                 events, passVars, inInit, logFileName, evaluated, npass,
                 afterReset, quiet, inRow, epoch, lastTarget>>

\* ------------------------------------------------------ the watcher goroutine
\* a comparison of the file names alone
IsTargetEventByName(ev) == ev[2] = targetFileName

\* event.Name == a.SaveData.LogPath + "\\" + a.targetFileName
IsTargetEvent(ev) == ev = <<LogPath, targetFileName>>

\* one event received from watcher.Events: a pass when its name is the
\* current target path, nothing otherwise
WatcherEvent ==
  /\ UNCHANGED <<evalVars, ctlVars>>
  /\ running
  /\ watching # ""
  /\ pc["wg"] = "none"
  /\ events # <<>>
  /\ events' = Tail(events)
  /\ IF IsTargetEvent(Head(events))
     THEN CallReadFile("wg", Head(events))
     ELSE UNCHANGED <<passVars, npass>>
  /\ UNCHANGED <<envVars, appVars, lastOffset, running, watching, feVars,
                 evaluated, afterReset, quiet, inRow, epoch, lastTarget>>

\* a subscription that an error ends
AfterErrorIdle(w) == ""

\* the subscription after the goroutine has received an error: the loop goes
\* round again, the watcher is neither closed nor added to
AfterError(w) == w

\* fsnotify reports an error of the subscription and the goroutine receives
\* it from watcher.Errors (the channel has no buffer: fsnotify hands the error
\* over when the goroutine is at its select): log.Println("error:", err).
\* werr records the first error.
WatcherError ==
  /\ running
  /\ watching # ""
  /\ pc["wg"] = "none"
  /\ werr = "none"
  /\ werr' = "seen"
  /\ watching' = AfterError(watching)
  /\ UNCHANGED <<envVars, appVars, lastOffset, running, events, passVars,
                 feVars, evaluated, npass, afterReset, quiet, inRow, epoch,
                 lastTarget, evalVars, stopRequested>>

\* The user asks for the watch to stop (at a moment when no event is waiting).
\* App has no method that takes the request: nothing sends on the channel
\* done that WatchFile waits for, and nothing closes the watcher.
StopRequest ==
  /\ running
  /\ watching # ""
  /\ events = <<>>
  /\ ~stopRequested
  /\ stopRequested' = TRUE
  /\ UNCHANGED <<envVars, appVars, lastOffset, running, watching, events,
                 passVars, feVars, evaluated, npass, afterReset, quiet, inRow,
                 epoch, lastTarget, evalVars, werr>>

SettingPaths == {"", "d1"}

Next ==
  \/ \E path \in Paths : WriteByte(path)
  \/ \E p \in Procs : Open(p)
  \/ \E p \in Procs : Scan(p)
  \/ \E p \in Procs : Store(p)
  \/ \E path \in SettingPaths : LoadSetting(path)
  \/ GetNewestFileName
  \/ ResetOffset
  \/ SetFileName
  \/ WatchFile
  \/ Poll
  \/ \E d \in Dirs : OpenFolderSelectWindow(d)
  \/ WatcherEvent

Spec == Init /\ [][Next]_vars

\* the same application in an environment that also deletes files
NextDel == Next \/ \E path \in Paths : RemoveFile(path)

SpecDel == Init /\ [][NextDel]_vars

\* The application once init() is over, before the timer of the frontend
\* fires: LoadSetting gave the directory d1, the first pass read the file
\* f1 (whose one line was written in part or in full), WatchFile zeroed the
\* cursor and subscribed the directory.
InitWatch ==
  /\ \E n \in 1..Len(LogLine) :
       fs = [p \in Paths |-> IF p = <<"d1", "f1">>
                             THEN SubSeq(LogLine, 1, n) ELSE Missing]
  /\ order = [d \in Dirs |-> IF d = "d1" THEN <<"f1">> ELSE <<>>]
  /\ LogPath = "d1"
  /\ targetFileName = "f1"
  /\ lastOffset = 0
  /\ running = TRUE
  /\ watching = "d1"
  /\ events = <<>>
  /\ pc = [p \in Procs |-> "none"]
  /\ ppath = [p \in Procs |-> IF p = "fe" THEN <<"d1", "f1">> ELSE NoPath]
  /\ poff = [p \in Procs |-> 0]
  /\ pend = [p \in Procs |-> IF p = "fe" THEN Size(<<"d1", "f1">>) ELSE 0]
  /\ pid = [p \in Procs |-> IF p = "fe" THEN 1 ELSE 0]
  /\ fpc = "idle"
  /\ inInit = FALSE
  /\ sdPath = "d1"
  /\ logFileName = "f1"
  /\ evaluated = <<[pass |-> 1, path |-> <<"d1", "f1">>, line |-> <<"a">>]>>
  /\ npass = 1
  /\ afterReset = FALSE
  /\ quiet = NoPass
  /\ inRow = {}
  /\ epoch = [start |-> 1, ok |-> TRUE, path |-> NoPath]
  /\ lastTarget = <<"d1", "f1">>
  /\ Settings = <<>>
  /\ tokens = <<>>
  /\ line = <<>>
  /\ ri = 0
  /\ epc = "idle"
  /\ posts = <<>>
  /\ msgs = <<>>
  /\ endpoint = "up"
  /\ werr = "none"
  /\ stopRequested = FALSE
  /\ userID = <<>>
  /\ ranged = <<>>
  /\ updAt = -1
  /\ retry = NoRetry

\* the log writer and the watcher goroutine from there on, with a
\* subscription that reports an error
NextErr ==
  \/ \E path \in Paths : WriteByte(path)
  \/ WatcherEvent
  \/ WatcherError
  \/ \E p \in Procs : Open(p)
  \/ \E p \in Procs : Scan(p)
  \/ \E p \in Procs : Store(p)

SpecErr == InitWatch /\ [][NextErr]_vars

\* the same application with a user who asks for the watch to stop
NextStop == Next \/ StopRequest

SpecStop == Init /\ [][NextStop]_vars

\* ------------------------------------------------- evaluateLine, HttpPost
\* A pattern, a URL and a line are sequences of one-character strings.
\* The patterns are written with literal characters, "." and "*", and with a
\* "(" that nothing closes.

\* regexp.Compile returns no error: every "*" has something to repeat that is
\* not itself a repetition, and no group is left open
Valid(re) ==
  \A i \in 1..Len(re) :
    /\ re[i] = "*" => (i > 1 /\ re[i - 1] \notin {"*", "("})
    /\ re[i] # "("

\* the compiled pattern: its atoms, each a character (or ".") that is
\* repeated or not
RECURSIVE Atoms(_, _)
Atoms(re, i) ==
  IF i > Len(re) THEN <<>>
  ELSE IF i < Len(re) /\ re[i + 1] = "*"
       THEN <<[c |-> re[i], star |-> TRUE]>> \o Atoms(re, i + 2)
       ELSE <<[c |-> re[i], star |-> FALSE]>> \o Atoms(re, i + 1)
Compile(re) == Atoms(re, 1)

AtomMatches(a, ch) == (a.c = "." /\ ch # NL) \/ a.c = ch

\* the number of characters of ln from index i on that atom a matches in a row
RECURSIVE Run(_, _, _)
Run(a, ln, i) ==
  IF i <= Len(ln) /\ AtomMatches(a, ln[i]) THEN 1 + Run(a, ln, i + 1) ELSE 0

\* the match of atoms k.. at index i of ln that the engine prefers (a
\* repetition takes as many characters as the rest of the pattern allows):
\* the index just after it, 0 when there is no match at i
RECURSIVE MatchEnd(_, _, _, _), StarEnd(_, _, _, _, _)
MatchEnd(atoms, k, ln, i) ==
  IF k > Len(atoms) THEN i
  ELSE IF atoms[k].star THEN StarEnd(atoms, k, ln, i, Run(atoms[k], ln, i))
  ELSE IF i <= Len(ln) /\ AtomMatches(atoms[k], ln[i])
       THEN MatchEnd(atoms, k + 1, ln, i + 1)
       ELSE 0
StarEnd(atoms, k, ln, i, n) ==
  LET e == MatchEnd(atoms, k + 1, ln, i + n) IN
  IF e # 0 THEN e
  ELSE IF n = 0 THEN 0 ELSE StarEnd(atoms, k, ln, i, n - 1)

\* a search that passes over the empty matches
RECURSIVE FindFromNonEmpty(_, _, _)
FindFromNonEmpty(atoms, ln, i) ==
  IF i > Len(ln) + 1 THEN <<>>
  ELSE LET e == MatchEnd(atoms, 1, ln, i) IN
       IF e > i THEN SubSeq(ln, i, e - 1) ELSE FindFromNonEmpty(atoms, ln, i + 1)

RECURSIVE FindFrom(_, _, _)
FindFrom(atoms, ln, i) ==
  IF i > Len(ln) + 1 THEN <<>>
  ELSE LET e == MatchEnd(atoms, 1, ln, i) IN
       IF e # 0 THEN SubSeq(ln, i, e - 1) ELSE FindFrom(atoms, ln, i + 1)

\* a search that hands back the whole line when the pattern is in it
FindWholeLine(re, ln) ==
  IF \E i \in 1..(Len(ln) + 1) : MatchEnd(Compile(re), 1, ln, i) # 0
  THEN ln ELSE <<>>

\* pattern.FindString(line): the text of the leftmost match, and the empty
\* string when there is no match
FindString(re, ln) == FindFrom(Compile(re), ln, 1)

\* a test that lets every URL through
HasPrefixAny(str, pre) == TRUE

\* strings.HasPrefix
HasPrefix(str, pre) ==
  Len(str) >= Len(pre) /\ SubSeq(str, 1, Len(pre)) = pre

Http == <<"h", "t", "t", "p">>

\* --------------------------- one pass of the watcher goroutine, with rules
MaxRules == 2      \* rules in a.SaveData.Settings
MaxLines == 2      \* lines in the log file of the pass

ErrorLine ==
  <<"2", "0", "2", "4", " ", "E", "R", "R", "O", "R", " ",
    "d", "i", "s", "k", " ", "f", "u", "l", "l">>
ShortLine == <<"b", "a">>
Lines == {ErrorLine, ShortLine}

PatError == <<"E", "R", "R", "O", "R", ".", "*">>
PatDisk == <<"d", "i", "s", "k">>
PatStar == <<"a", "*">>                \* its leftmost match may be empty
PatNoArg == <<"*", "a">>               \* not a regular expression
PatOpen == <<"(", "a">>                \* not a regular expression

UrlOk == <<"h", "t", "t", "p", ":", "x">>
UrlBad == <<"f", "t", "p", ":", "x">>

Rule(title, type, url, re) ==
  [Title |-> title, Type |-> type, URL |-> url, RegExp |-> re]

Rules ==
  {Rule("error", "Web Request", UrlOk, PatError),
   Rule("disk", "Web Request", UrlOk, PatDisk),
   Rule("star", "Web Request", UrlOk, PatStar),
   Rule("none", "Web Request", UrlOk, <<>>),
   Rule("noarg", "Web Request", UrlOk, PatNoArg),
   Rule("open", "Web Request", UrlOk, PatOpen),
   Rule("nourl", "Web Request", <<>>, PatDisk),
   Rule("badurl", "Web Request", UrlBad, PatError),
   Rule("xs", "xs", UrlOk, PatDisk),
   Rule("log", "log", UrlOk, PatError)}

SeqsUpTo(S, n) == UNION {[1..k -> S] : k \in 0..n}

\* the bytes of a file that holds the lines of ls, each with its newline
RECURSIVE FileOf(_)
FileOf(ls) ==
  IF ls = <<>> THEN <<>> ELSE Head(ls) \o <<NL>> \o FileOf(Tail(ls))

Contents == {FileOf(ls) : ls \in SeqsUpTo(Lines, MaxLines) \ {<<>>}}

\* what http.Post and io.ReadAll can come back with
Responses == {"200", "500", "neterr", "bodyerr"}

Target == <<"d1", "f1">>

\* The watcher goroutine has received a write event of the target and has
\* called ReadFile: the file holds some lines, LoadSetting has loaded some
\* rules, WatchFile has zeroed the cursor.
InitEval ==
  /\ \E content \in Contents : fs = [p \in Paths |-> IF p = Target THEN content ELSE Missing]
  /\ order = [d \in Dirs |-> IF d = "d1" THEN <<"f1">> ELSE <<>>]
  /\ LogPath = "d1"
  /\ targetFileName = "f1"
  /\ lastOffset = 0
  /\ running = TRUE
  /\ watching = "d1"
  /\ events = <<>>
  /\ pc = [p \in Procs |-> IF p = "wg" THEN "open" ELSE "none"]
  /\ ppath = [p \in Procs |-> IF p = "wg" THEN Target ELSE NoPath]
  /\ poff = [p \in Procs |-> 0]
  /\ pend = [p \in Procs |-> 0]
  /\ pid = [p \in Procs |-> IF p = "wg" THEN 1 ELSE 0]
  /\ fpc = "idle"
  /\ inInit = FALSE
  /\ sdPath = "d1"
  /\ logFileName = "f1"
  /\ evaluated = <<>>
  /\ npass = 1
  /\ afterReset = FALSE
  /\ quiet = NoPass
  /\ inRow = {}
  /\ epoch = [start |-> 0, ok |-> TRUE, path |-> NoPath]
  /\ lastTarget = NoPath
  /\ Settings \in SeqsUpTo(Rules, MaxRules)
  /\ tokens = <<>>
  /\ line = <<>>
  /\ ri = 0
  /\ epc = "idle"
  /\ posts = <<>>
  /\ msgs = <<>>
  /\ endpoint \in {"up", "silent"}
  /\ werr = "none"
  /\ stopRequested = FALSE
  /\ userID = <<>>
  /\ ranged = <<>>
  /\ updAt = -1
  /\ retry = NoRetry

passTail == <<envVars, appVars, lastOffset, watching, events, ppath, poff,
              pid, feVars, npass, afterReset, quiet, inRow, epoch, lastTarget,
              ctlVars>>

tailVars == <<passTail, userID, updAt, retry>>

\* the first scanner.Scan(): the scanner reads the file from the seek
\* position on and splits it into lines
ScanBegin(p) ==
  /\ running
  /\ pc[p] = "scan" /\ epc = "idle"
  /\ tokens' = ScanLines(ReadFrom(fs[ppath[p]], poff[p]))
  /\ pend' = [pend EXCEPT ![p] = PosAfterScan(fs[ppath[p]], poff[p])]
  /\ epc' = "loop"
  /\ UNCHANGED <<tailVars, running, pc, evaluated, Settings, ranged, line, ri,
                 posts, msgs, endpoint>>

\* for scanner.Scan() { a.evaluateLine(scanner.Text()) }
ScanNext(p) ==
  /\ running
  /\ pc[p] = "scan" /\ epc = "loop"
  /\ IF tokens = <<>>
     THEN /\ pc' = [pc EXCEPT ![p] = "store"]
          /\ epc' = "idle"
          /\ UNCHANGED <<tokens, line, ri, evaluated, ranged>>
     ELSE /\ line' = Head(tokens)
          /\ ranged' = Settings
          /\ tokens' = Tail(tokens)
          /\ evaluated' = Append(evaluated,
               [pass |-> pid[p], path |-> ppath[p], line |-> Head(tokens)])
          /\ ri' = 1
          /\ epc' = "rule"
          /\ UNCHANGED pc
  /\ UNCHANGED <<tailVars, running, pend, Settings, posts, msgs, endpoint>>

\* a test that sends every sink type to HttpPost
IsWebRequestAny(type) == TRUE

\* setting.Type == "Web Request"; the branches of "xs" and "log" are empty
IsWebRequest(type) == type = "Web Request"

\* HttpPost before the request: the message it returns at once, "" when it
\* goes on to http.Post
UrlCheck(url) ==
  IF url = <<>> THEN "URL is empty"
  ELSE IF ~HasPrefix(url, Http) THEN "URL is invalid"
  ELSE ""

Msg(text) == [rule |-> ri, lineNo |-> Len(evaluated), msg |-> text]

\* one turn of evaluateLine's loop over the slice that a.SaveData.Settings
\* was when the range statement began (it is evaluated once), up to the return
\* of HttpPost or to its http.Post; regexp.MustCompile panics on a pattern
\* that does not compile, and the panic of a goroutine ends the process
EvalRule(p) ==
  /\ running
  /\ pc[p] = "scan" /\ epc = "rule"
  /\ IF ri > Len(ranged)
     THEN /\ epc' = "loop"
          /\ ri' = 0
          /\ UNCHANGED <<running, posts, msgs>>
     ELSE LET setting == ranged[ri] IN
          IF setting.RegExp = <<>>
          THEN ri' = ri + 1 /\ UNCHANGED <<running, epc, posts, msgs>>
          ELSE IF ~Valid(setting.RegExp)
          THEN running' = FALSE /\ UNCHANGED <<ri, epc, posts, msgs>>
          ELSE LET matches == FindString(setting.RegExp, line) IN
               IF matches = <<>> \/ ~IsWebRequest(setting.Type)
               THEN ri' = ri + 1 /\ UNCHANGED <<running, epc, posts, msgs>>
               ELSE IF UrlCheck(setting.URL) # ""
               THEN /\ msgs' = Append(msgs, Msg(UrlCheck(setting.URL)))
                    /\ ri' = ri + 1
                    /\ UNCHANGED <<running, epc, posts>>
               ELSE /\ posts' = Append(posts,
                         [rule |-> ri, lineNo |-> Len(evaluated),
                          url |-> setting.URL, value |-> matches,
                          title |-> setting.Title, resp |-> "none"])
                    /\ epc' = "post"
                    /\ UNCHANGED <<running, ri, msgs>>
  /\ UNCHANGED <<tailVars, pc, pend, evaluated, Settings, ranged, tokens,
                 line, endpoint>>

\* http.Post and io.ReadAll come back: log.Fatal on an error of either, and
\* "OK" otherwise, whatever the status of the response; a server that never
\* answers leaves the goroutine in http.Post (the client has no timeout)
PostReturn(p, resp) ==
  /\ running
  /\ pc[p] = "scan" /\ epc = "post"
  /\ endpoint = "up"
  /\ posts' = [posts EXCEPT ![Len(posts)].resp = resp]
  /\ IF resp \in {"neterr", "bodyerr"}
     THEN running' = FALSE /\ UNCHANGED <<ri, epc, msgs>>
     ELSE /\ msgs' = Append(msgs, Msg("OK"))
          /\ ri' = ri + 1
          /\ epc' = "rule"
          /\ UNCHANGED running
  /\ UNCHANGED <<tailVars, pc, pend, evaluated, Settings, ranged, tokens,
                 line, endpoint>>

NextEval ==
  \/ \E p \in Procs : Open(p)
  \/ \E p \in Procs : ScanBegin(p)
  \/ \E p \in Procs : ScanNext(p)
  \/ \E p \in Procs : EvalRule(p)
  \/ \E p \in Procs, resp \in Responses : PostReturn(p, resp)
  \/ \E p \in Procs : Store(p)

SpecEval == InitEval /\ [][NextEval]_vars

\* ------------------------------------------- UpdateSetting during the watch
\* The frontend calls UpdateSetting whenever the user adds, edits or deletes
\* a rule. setting.json, which it writes, is read by LoadSetting at start
\* only and is not part of the state.

\* an UpdateSetting that also rewinds the cursor
UpdateSettingRewind(ss) ==
  /\ running
  /\ Settings' = ss
  /\ lastOffset' = 0
  /\ updAt' = npass
  /\ UNCHANGED <<envVars, appVars, watching, events, passVars, feVars, npass,
                 afterReset, quiet, inRow, epoch, lastTarget, ctlVars, userID,
                 ranged, running, evaluated, tokens, line, ri, epc, posts,
                 msgs, endpoint, retry>>

\* a.SaveData.Settings = ss, and the write of setting.json, whose errors are
\* only reported to the frontend
UpdateSetting(ss) ==
  /\ running
  /\ Settings' = ss
  /\ updAt' = npass
  /\ UNCHANGED <<passTail, userID, ranged, running, pc, pend, evaluated,
                 tokens, line, ri, epc, posts, msgs, endpoint, retry>>

PatA == <<"a">>
PatAny == <<".">>

\* the rule lists the user goes through
RuleLists ==
  {<<>>,
   <<Rule("old", "Web Request", UrlOk, PatA)>>,
   <<Rule("new", "Web Request", UrlOk, PatAny)>>,
   <<Rule("old", "Web Request", UrlOk, PatA),
     Rule("new", "Web Request", UrlOk, PatAny)>>}

\* The application once init() is over: LoadSetting gave the directory d1
\* and some rules, the newest file f1 was empty when getLogFiles read it,
\* WatchFile zeroed the cursor and subscribed the directory.
InitUpd ==
  /\ fs = [p \in Paths |-> IF p = Target THEN <<>> ELSE Missing]
  /\ order = [d \in Dirs |-> IF d = "d1" THEN <<"f1">> ELSE <<>>]
  /\ LogPath = "d1"
  /\ targetFileName = "f1"
  /\ lastOffset = 0
  /\ running = TRUE
  /\ watching = "d1"
  /\ events = <<>>
  /\ pc = [p \in Procs |-> "none"]
  /\ ppath = [p \in Procs |-> IF p = "fe" THEN Target ELSE NoPath]
  /\ poff = [p \in Procs |-> 0]
  /\ pend = [p \in Procs |-> 0]
  /\ pid = [p \in Procs |-> IF p = "fe" THEN 1 ELSE 0]
  /\ fpc = "idle"
  /\ inInit = FALSE
  /\ sdPath = "d1"
  /\ logFileName = "f1"
  /\ evaluated = <<>>
  /\ npass = 1
  /\ afterReset = FALSE
  /\ quiet = NoPass
  /\ inRow = {}
  /\ epoch = [start |-> 0, ok |-> TRUE, path |-> NoPath]
  /\ lastTarget = Target
  /\ Settings \in RuleLists
  /\ tokens = <<>>
  /\ line = <<>>
  /\ ri = 0
  /\ epc = "idle"
  /\ posts = <<>>
  /\ msgs = <<>>
  /\ endpoint = "up"
  /\ werr = "none"
  /\ stopRequested = FALSE
  /\ userID = <<>>
  /\ ranged = <<>>
  /\ updAt = -1
  /\ retry = NoRetry

\* the log writer, the watcher goroutine with its passes, and the user's
\* changes of the rules
NextUpd ==
  \/ WriteByte(Target)
  \/ WatcherEvent
  \/ \E ss \in RuleLists : UpdateSetting(ss)
  \/ \E p \in Procs : Open(p)
  \/ \E p \in Procs : ScanBegin(p)
  \/ \E p \in Procs : ScanNext(p)
  \/ \E p \in Procs : EvalRule(p)
  \/ \E p \in Procs : PostReturn(p, "200")
  \/ \E p \in Procs : Store(p)

SpecUpd == InitUpd /\ [][NextUpd]_vars

\* ------------------------- the earlier version: two built-in recognizers
\* The earlier version of app.go has the same ReadFile, ResetOffset and
\* watcher goroutine (its targetFolderPath is LogPath here) and an
\* evaluateLine with two fixed recognizers in place of the rules.

\* "User Authenticated: "
UserMarker ==
  <<"U", "s", "e", "r", " ", "A", "u", "t", "h", "e", "n", "t", "i", "c",
    "a", "t", "e", "d", ":", " ">>

\* "[Behaviour] Joining "
JoinMarker ==
  <<"[", "B", "e", "h", "a", "v", "i", "o", "u", "r", "]", " ", "J", "o",
    "i", "n", "i", "n", "g", " ">>

\* "wrld_"
WorldPrefix == <<"w", "r", "l", "d", "_">>

\* the first index from i on at which sub begins in s, 0 when there is none
RECURSIVE IndexOf(_, _, _)
IndexOf(s, sub, i) ==
  IF i + Len(sub) - 1 > Len(s) THEN 0
  ELSE IF SubSeq(s, i, i + Len(sub) - 1) = sub THEN i
  ELSE IndexOf(s, sub, i + 1)

\* strings.Contains
Contains(s, sub) == IndexOf(s, sub, 1) # 0

\* strings.Split for a separator that is not empty: the pieces between the
\* occurrences of sep, one piece (s itself) when sep does not occur
RECURSIVE Split(_, _)
Split(s, sep) ==
  LET i == IndexOf(s, sep, 1) IN
  IF i = 0 THEN <<s>>
  ELSE <<SubSeq(s, 1, i - 1)>> \o Split(SubSeq(s, i + Len(sep), Len(s)), sep)

\* strings.Split(line, "(")[1] is an index out of range when the line has
\* no "(": a run-time panic, which ends the process
UserIDPanics(ln) == Len(Split(ln, <<"(">>)) < 2

\* strings.Split(strings.Split(line, "(")[1], ")")[0]
LegacyUserID(ln) == Split(Split(ln, <<"(">>)[2], <<")">>)[1]

\* strings.Split(strings.Split(line, substr)[1], ":")[0]
LegacyWorldID(ln) == Split(Split(ln, JoinMarker)[2], <<":">>)[1]

\* strings.Contains(line, "User Authenticated: ")
IsUserLine(ln) == Contains(ln, UserMarker)

\* strings.Contains(line, substr+"wrld_")
IsJoinLine(ln) == Contains(ln, JoinMarker \o WorldPrefix)

\* a user id that only a line of its own keeps
NewUserIDForgetful(ln, old) == IF IsUserLine(ln) THEN LegacyUserID(ln) ELSE <<>>

\* a.userID after evaluateLine(ln) has returned: assigned by a "user
\* authenticated" line, left alone by every other line
NewUserID(ln, old) == IF IsUserLine(ln) THEN LegacyUserID(ln) ELSE old

\* 'User Authenticated: foo (user-123)'
UserLine ==
  UserMarker \o
    <<"f", "o", "o", " ", "(", "u", "s", "e", "r", "-", "1", "2", "3", ")">>

\* 'User Authenticated: bar (u2)'
UserLine2 ==
  UserMarker \o <<"b", "a", "r", " ", "(", "u", "2", ")">>

\* '[Behaviour] Joining wrld_abcd1234:some-instance'
JoinLine ==
  JoinMarker \o
    <<"w", "r", "l", "d", "_", "a", "b", "c", "d", "1", "2", "3", "4", ":",
    "s", "o", "m", "e", "-", "i", "n", "s", "t", "a", "n", "c", "e">>

\* a line with the markers of both recognizers
BothLine == JoinLine \o <<" ">> \o UserLine

\* a "user authenticated" line without parentheses
BareLine == UserMarker \o <<"f", "o", "o">>

\* the marker of the second recognizer without the prefix of a world
RoomLine == JoinMarker \o <<"o", "r", " ", "C", "r", "e", "a", "t", "i", "n", "g">>

LegacyLines == {UserLine, UserLine2, JoinLine, BothLine, BareLine, RoomLine}

LegacyContents ==
  {FileOf(ls) : ls \in SeqsUpTo(LegacyLines, MaxLines) \ {<<>>}}

\* The watch runs on a file that holds some lines; two write events of the
\* file are waiting for the watcher goroutine and the frontend is about to
\* call ResetOffset.
InitLegacy ==
  /\ \E content \in LegacyContents :
       fs = [p \in Paths |-> IF p = Target THEN content ELSE Missing]
  /\ order = [d \in Dirs |-> IF d = "d1" THEN <<"f1">> ELSE <<>>]
  /\ LogPath = "d1"
  /\ targetFileName = "f1"
  /\ lastOffset = 0
  /\ running = TRUE
  /\ watching = "d1"
  /\ events = <<Target, Target>>
  /\ pc = [p \in Procs |-> "none"]
  /\ ppath = [p \in Procs |-> NoPath]
  /\ poff = [p \in Procs |-> 0]
  /\ pend = [p \in Procs |-> 0]
  /\ pid = [p \in Procs |-> 0]
  /\ fpc = "reset"
  /\ inInit = FALSE
  /\ sdPath = "d1"
  /\ logFileName = ""
  /\ evaluated = <<>>
  /\ npass = 0
  /\ afterReset = FALSE
  /\ quiet = NoPass
  /\ inRow = {}
  /\ epoch = [start |-> 0, ok |-> TRUE, path |-> NoPath]
  /\ lastTarget = NoPath
  /\ Settings = <<>>
  /\ tokens = <<>>
  /\ line = <<>>
  /\ ri = 0
  /\ epc = "idle"
  /\ posts = <<>>
  /\ msgs = <<>>
  /\ endpoint \in {"up", "silent"}
  /\ werr = "none"
  /\ stopRequested = FALSE
  /\ userID = <<>>
  /\ ranged = <<>>
  /\ updAt = -1
  /\ retry = NoRetry

\* evaluateLine of the earlier version, up to its return or to the http.Post
\* of PostWorldID: the first recognizer that finds its marker takes the line
LegacyEvaluateLine(p) ==
  /\ running
  /\ pc[p] = "scan" /\ epc = "rule"
  /\ IF IsUserLine(line)
     THEN IF UserIDPanics(line)
          THEN running' = FALSE /\ UNCHANGED <<userID, ri, epc, posts>>
          ELSE /\ userID' = NewUserID(line, userID)
               /\ epc' = "loop"
               /\ ri' = 0
               /\ UNCHANGED <<running, posts>>
     ELSE IF IsJoinLine(line)
     THEN /\ posts' = Append(posts,
               [user |-> userID, world |-> LegacyWorldID(line),
                lineNo |-> Len(evaluated), resp |-> "none"])
          /\ epc' = "post"
          /\ userID' = NewUserID(line, userID)
          /\ UNCHANGED <<running, ri>>
     ELSE /\ epc' = "loop"
          /\ ri' = 0
          /\ userID' = NewUserID(line, userID)
          /\ UNCHANGED <<running, posts>>
  /\ UNCHANGED <<passTail, updAt, retry, pc, pend, evaluated, Settings,
                 ranged, tokens, line, msgs, endpoint>>

\* http.Post and io.ReadAll of PostWorldID come back: log.Fatal on an error
\* of either; the "OK" it returns otherwise is dropped by evaluateLine
PostWorldIDReturn(p, resp) ==
  /\ running
  /\ pc[p] = "scan" /\ epc = "post"
  /\ endpoint = "up"
  /\ posts' = [posts EXCEPT ![Len(posts)].resp = resp]
  /\ IF resp \in {"neterr", "bodyerr"}
     THEN running' = FALSE /\ UNCHANGED <<ri, epc>>
     ELSE /\ ri' = 0
          /\ epc' = "loop"
          /\ UNCHANGED running
  /\ UNCHANGED <<tailVars, pc, pend, evaluated, Settings, ranged, tokens,
                 line, msgs, endpoint>>

NextLegacy ==
  \/ WatcherEvent
  \/ ResetOffset
  \/ \E p \in Procs : Open(p)
  \/ \E p \in Procs : ScanBegin(p)
  \/ \E p \in Procs : ScanNext(p)
  \/ \E p \in Procs : LegacyEvaluateLine(p)
  \/ \E p \in Procs, resp \in Responses : PostWorldIDReturn(p, resp)
  \/ \E p \in Procs : Store(p)

SpecLegacy == InitLegacy /\ [][NextLegacy]_vars

\* --------------------------------------------- withRetry of the server
\* The server wraps every execute() of its database handle in withRetry
\* (src/src/db-utils.ts). An error is the message it carries; Null is an
\* error value that is null or undefined.

Null == <<"null">>

\* the substrings isNetworkError looks for
NetworkMarkers ==
  {<<"N", "e", "t", "w", "o", "r", "k", " ", "c", "o", "n", "n", "e", "c",
     "t", "i", "o", "n", " ", "l", "o", "s", "t">>,
   <<"c", "o", "n", "n", "e", "c", "t", "i", "o", "n", " ", "l", "o", "s",
     "t">>,
   <<"n", "e", "t", "w", "o", "r", "k", " ", "e", "r", "r", "o", "r">>,
   <<"t", "i", "m", "e", "o", "u", "t">>,
   <<"E", "C", "O", "N", "N", "R", "E", "S", "E", "T">>,
   <<"E", "N", "O", "T", "F", "O", "U", "N", "D">>,
   <<"E", "T", "I", "M", "E", "D", "O", "U", "T">>}

\* a test that takes every error for a network error
IsNetworkErrorAny(error) == TRUE

\* isNetworkError: false for no error, else a substring test of the message
IsNetworkError(error) ==
  /\ error # Null
  /\ \E m \in NetworkMarkers : Contains(error, m)

\* 'Network connection lost'
LostMessage ==
  <<"N", "e", "t", "w", "o", "r", "k", " ", "c", "o", "n", "n", "e", "c",
    "t", "i", "o", "n", " ", "l", "o", "s", "t">>

\* 'read ECONNRESET'
ResetMessage ==
  <<"r", "e", "a", "d", " ", "E", "C", "O", "N", "N", "R", "E", "S", "E",
    "T">>

\* 'UNIQUE constraint failed'
ConstraintMessage ==
  <<"U", "N", "I", "Q", "U", "E", " ", "c", "o", "n", "s", "t", "r", "a",
    "i", "n", "t", " ", "f", "a", "i", "l", "e", "d">>

\* 'Timeout', which no marker matches (the test is case sensitive)
CapitalMessage ==
  <<"T", "i", "m", "e", "o", "u", "t">>

\* what the operation can throw: network-class errors and others
NetworkErrors == {LostMessage, ResetMessage}
OtherErrors == {ConstraintMessage, CapitalMessage, Null}
Errors == NetworkErrors \cup OtherErrors

RECURSIVE Pow(_, _)
Pow(b, e) == IF e = 0 THEN 1 ELSE b * Pow(b, e - 1)

\* Math.min(opts.baseDelay * Math.pow(opts.backoffMultiplier, attempt),
\*          opts.maxDelay)
RetryDelay(opts, attempt) ==
  LET d == opts.baseDelay * Pow(opts.backoffMultiplier, attempt)
  IN IF d < opts.maxDelay THEN d ELSE opts.maxDelay

\* the options a caller passes: some of the fields, each with a small value
OptionValues == {0, 1, 2}
RetryOptions ==
  UNION {[given -> OptionValues] : given \in SUBSET DOMAIN DefaultRetryOptions}

\* { ...DEFAULT_RETRY_OPTIONS, ...options }
Merge(o) ==
  [f \in DOMAIN DefaultRetryOptions |->
     IF f \in DOMAIN o THEN o[f] ELSE DefaultRetryOptions[f]]

\* withRetry has been called with some options and is at the test of its loop
InitRetry ==
  /\ fs = [p \in Paths |-> Missing]
  /\ order = [d \in Dirs |-> <<>>]
  /\ LogPath = ""
  /\ targetFileName = ""
  /\ lastOffset = 0
  /\ running = TRUE
  /\ watching = ""
  /\ events = <<>>
  /\ pc = [p \in Procs |-> "none"]
  /\ ppath = [p \in Procs |-> <<"", "">>]
  /\ poff = [p \in Procs |-> 0]
  /\ pend = [p \in Procs |-> 0]
  /\ pid = [p \in Procs |-> 0]
  /\ fpc = "load"
  /\ inInit = TRUE
  /\ sdPath = ""
  /\ logFileName = ""
  /\ evaluated = <<>>
  /\ npass = 0
  /\ afterReset = FALSE
  /\ quiet = NoPass
  /\ inRow = {}
  /\ epoch = [start |-> 0, ok |-> TRUE, path |-> NoPath]
  /\ lastTarget = NoPath
  /\ Settings = <<>>
  /\ tokens = <<>>
  /\ line = <<>>
  /\ ri = 0
  /\ epc = "idle"
  /\ posts = <<>>
  /\ msgs = <<>>
  /\ endpoint = "up"
  /\ werr = "none"
  /\ stopRequested = FALSE
  /\ userID = <<>>
  /\ ranged = <<>>
  /\ updAt = -1
  /\ \E o \in RetryOptions :
       retry = [opts |-> Merge(o), attempt |-> 0, at |-> "loop",
                outs |-> <<>>, delays |-> <<>>, thrown |-> <<"none">>]

\* everything but the call of withRetry
restVars ==
  <<fs, order, LogPath, targetFileName, lastOffset, running, watching,
    events, pc, ppath, poff, pend, pid, fpc, inInit, sdPath, logFileName,
    evaluated, npass, afterReset, quiet, inRow, epoch, lastTarget, Settings,
    tokens, line, ri, epc, posts, msgs, endpoint, werr, stopRequested,
    userID, ranged, updAt>>

\* for (...; attempt <= opts.maxRetries; ...), and throw lastError after it
RetryLoopTest ==
  /\ retry.at = "loop"
  /\ retry' = IF retry.attempt <= retry.opts.maxRetries
              THEN [retry EXCEPT !.at = "call"]
              ELSE [retry EXCEPT !.at = "thrown",
                                 !.thrown = IF retry.outs = <<>> THEN Null
                                            ELSE retry.outs[Len(retry.outs)]]
  /\ UNCHANGED restVars

\* return await operation()
OperationReturns ==
  /\ retry.at = "call"
  /\ retry' = [retry EXCEPT !.at = "returned", !.outs = Append(@, <<"ok">>)]
  /\ UNCHANGED restVars

\* the catch clause: throw error, or the delay and sleep(delay)
OperationThrows(error) ==
  /\ retry.at = "call"
  /\ retry' =
       IF ~IsNetworkError(error) \/ retry.attempt = retry.opts.maxRetries
       THEN [retry EXCEPT !.at = "thrown", !.thrown = error,
                          !.outs = Append(@, error)]
       ELSE [retry EXCEPT !.at = "sleep", !.outs = Append(@, error),
                          !.delays = Append(@, RetryDelay(retry.opts,
                                                          retry.attempt))]
  /\ UNCHANGED restVars

\* the timer of sleep fires; attempt++
SleepEnds ==
  /\ retry.at = "sleep"
  /\ retry' = [retry EXCEPT !.at = "loop", !.attempt = @ + 1]
  /\ UNCHANGED restVars

NextRetry ==
  \/ RetryLoopTest
  \/ OperationReturns
  \/ \E error \in Errors : OperationThrows(error)
  \/ SleepEnds

\* the operation's promise settles and the timer fires
SpecRetry == InitRetry /\ [][NextRetry]_vars /\ WF_vars(NextRetry)

\* ---------------------------------------------------------------- claims
Min(a, b) == IF a <= b THEN a ELSE b
Prefix(content, n) == SubSeq(content, 1, Min(n, Len(content)))

\* the newline-terminated lines of data, without their newline
RECURSIVE CompleteLines(_)
CompleteLines(data) ==
  LET i == IndexNL(data, 1) IN
  IF i = 0 THEN <<>>
  ELSE <<SubSeq(data, 1, i - 1)>> \o CompleteLines(SubSeq(data, i + 1, Len(data)))

\* the number of bytes of data up to and including its last newline
RECURSIVE LastNL(_)
LastNL(data) ==
  IF data = <<>> THEN 0
  ELSE IF data[Len(data)] = NL THEN Len(data)
  ELSE LastNL(SubSeq(data, 1, Len(data) - 1))

EndsInPartialLine(data) == data # <<>> /\ data[Len(data)] # NL

\* the lines handed to evaluateLine since the cursor was last zeroed
EpochLines ==
  [i \in 1..(Len(evaluated) - epoch.start) |-> evaluated[epoch.start + i].line]

OpenStep(p) == pc[p] = "open" /\ pc'[p] = "scan"
ScanStep(p) == pc[p] = "scan" /\ pc'[p] = "store"
StoreStep(p) == pc[p] = "store" /\ pc'[p] = "none"

\* C1: while one file only grows and the passes on it run one after another
\* from a cursor that started at 0 and was carried from pass to pass, the
\* lines handed to evaluateLine so far are, once the passes are complete, the
\* newline-terminated lines of the file as the last pass read it, each once
\* and in file order.
C1_LinesExactlyOnce ==
  (epoch.ok /\ epoch.path # NoPath /\ Exists(epoch.path)
     /\ \A p \in Procs : ~Reading(p))
  => EpochLines = CompleteLines(Prefix(fs[epoch.path], lastOffset))

\* C2: a pass that finds the file ending in an unterminated line hands only
\* the newline-terminated lines to evaluateLine and leaves the file position
\* just after the last of them.
C2_PartialLineNotConsumed ==
  [][\A p \in Procs :
       (ScanStep(p) /\ EndsInPartialLine(ReadFrom(fs[ppath[p]], poff[p])))
       => LET data == ReadFrom(fs[ppath[p]], poff[p]) IN
          /\ LinesOfPass(pid[p])' = CompleteLines(data)
          /\ pend'[p] = poff[p] + LastNL(data)]_vars

\* C3: a pass that began right after a completed pass on the same file, with
\* no growth of the file, no reset and no other pass in between, has handed
\* no line to evaluateLine when its scan is over, and the position it is
\* about to store is the one the first pass stored.
C3_SecondPassIdempotent ==
  \A p \in Procs :
    (pc[p] = "store" /\ p \in inRow /\ quiet # NoPass)
    => /\ LinesOfPass(pid[p]) = <<>>
       /\ pend[p] = quiet.off
       /\ lastOffset = quiet.off

\* a second pass in a row is at its store, after a first pass that read bytes
C3_Witness ==
  \E p \in Procs :
    /\ pc[p] = "store" /\ p \in inRow /\ quiet # NoPass
    /\ quiet.off > 0 /\ quiet.path = ppath[p]

\* C4: the first pass to begin after a call of ResetOffset seeks to byte 0,
\* and a pass that seeks to byte 0 hands every newline-terminated line of the
\* file to evaluateLine, in file order.
C4_PassAfterResetFromZero ==
  [][\A p \in Procs :
       /\ (OpenStep(p) /\ afterReset) => poff'[p] = 0
       /\ (ScanStep(p) /\ poff[p] = 0)
          => LET want == CompleteLines(fs[ppath[p]])
                 got == LinesOfPass(pid[p])'
             IN Len(got) >= Len(want) /\ SubSeq(got, 1, Len(want)) = want]_vars

\* C5: at most one goroutine at a time is between reading lastOffset for its
\* seek and storing the new lastOffset.
C5_PassesMutuallyExclusive ==
  ~(Reading("fe") /\ Reading("wg"))

\* C6: the first pass on a target other than that of the pass before it
\* seeks to byte 0, and a change of the file name leaves the directory
\* subscription as it is.
C6_NewTargetStartsAtZero ==
  [][/\ \A p \in Procs :
          (OpenStep(p) /\ ppath[p] # lastTarget) => poff'[p] = 0
     /\ (targetFileName' # targetFileName) => watching' = watching]_vars

\* C7: while files only grow, a pass seeks to an offset between 0 and the
\* size of the file it reads.
C7_CursorWithinFile ==
  \A p \in Procs :
    pc[p] = "scan" => (0 <= poff[p] /\ poff[p] <= Size(ppath[p]))

\* C8: lastOffset goes down or to 0 only in a step of ResetOffset, and a pass
\* stores a position that is at least the value lastOffset has at the store.
C8_CursorMonotonic ==
  [][/\ (lastOffset' < lastOffset) => (fpc = "reset" /\ fpc' = "setfn")
     /\ \A p \in Procs : StoreStep(p) => lastOffset' >= lastOffset]_vars

\* C9: when the file of a pass is missing, the pass is skipped: the
\* process keeps running, no line is evaluated, lastOffset keeps its value
\* and ReadFile returns.
C9_OpenFailureSkipsPass ==
  [][\A p \in Procs :
       (pc[p] = "open" /\ ppath[p] \in Paths /\ ~Exists(ppath[p])
          /\ <<running, pc[p]>>' # <<running, pc[p]>>)
       => /\ running'
          /\ pc'[p] = "none"
          /\ lastOffset' = lastOffset
          /\ evaluated' = evaluated]_vars

\* C10: a pass that seeks beyond the end of its file reads the file from
\* byte 0 instead: it hands the newline-terminated lines of the whole file to
\* evaluateLine and ends at a position within the file.
C10_CursorBeyondEndClamped ==
  [][\A p \in Procs :
       (ScanStep(p) /\ poff[p] > Size(ppath[p]))
       => /\ pend'[p] <= Size(ppath[p])
          /\ LinesOfPass(pid[p])' = CompleteLines(fs[ppath[p]])]_vars

\* the rule evaluateLine's loop is at, when it is at one
AtRule == epc = "rule" /\ ri <= Len(Settings)
Setting == Settings[ri]

\* the rule at hand has a pattern that compiles and is in the line
RuleMatches(k, ln) ==
  /\ Settings[k].RegExp # <<>>
  /\ Valid(Settings[k].RegExp)
  /\ FindString(Settings[k].RegExp, ln) # <<>>

\* HttpPost returns, at once or after the request
DispatchEnds ==
  \/ Len(msgs') > Len(msgs)
  \/ epc = "post" /\ posts' # posts

\* C11: no error condition ends the process: after a failure to open the
\* file, to subscribe the watcher or to reach the webhook, the application
\* is still running.
C11_NoFatalCondition == running

\* C12: the requests of one line are sent in the order of the rules, and
\* when the dispatch of a rule ends, whatever its outcome, evaluateLine goes
\* on to the rule after it (so a later matching rule is dispatched too).
C12_DispatchInRuleOrder ==
  [][/\ (Len(posts') > Len(posts) /\ posts # <<>>
          /\ posts[Len(posts)].lineNo = posts'[Len(posts')].lineNo)
        => posts[Len(posts)].rule < posts'[Len(posts')].rule
     /\ DispatchEnds => (running' /\ ri' = ri + 1 /\ epc' = "rule")]_vars

\* C13: a rule whose pattern is empty or does not compile matches nothing
\* and raises nothing: evaluateLine sends no request for it and goes on to
\* the next rule.
C13_BadPatternSkipped ==
  [][(AtRule /\ (Setting.RegExp = <<>> \/ ~Valid(Setting.RegExp)))
     => (running' /\ ri' = ri + 1 /\ epc' = "rule"
         /\ posts' = posts /\ msgs' = msgs)]_vars

StartsWithHttp(url) ==
  Len(url) >= 4 /\ url[1] = "h" /\ url[2] = "t" /\ url[3] = "t" /\ url[4] = "p"

\* the rule at hand is a Web Request rule whose pattern is in the line
AtWebRequest ==
  AtRule /\ RuleMatches(ri, line) /\ Setting.Type = "Web Request"

\* C14: the dispatch of a Web Request rule whose URL is empty or does not
\* start with "http" sends no request and returns "URL is empty" or "URL is
\* invalid" (never "OK"), and evaluateLine goes on to the next rule.
C14_InvalidUrlNoRequest ==
  [][(AtWebRequest /\ ~StartsWithHttp(Setting.URL))
     => /\ posts' = posts
        /\ msgs' = Append(msgs, Msg(IF Setting.URL = <<>>
                                    THEN "URL is empty" ELSE "URL is invalid"))
        /\ running' /\ ri' = ri + 1 /\ epc' = "rule"]_vars

\* a pass met a rule without URL and a rule with a URL that is no http URL,
\* sent nothing, and went on to its store
C14_Witness ==
  /\ pc["wg"] = "store"
  /\ posts = <<>>
  /\ \E i, j \in 1..Len(msgs) :
       msgs[i].msg = "URL is empty" /\ msgs[j].msg = "URL is invalid"

\* C15: when the POST fails at network level or the status of the response
\* is not 2xx, HttpPost returns a message other than "OK", the process keeps
\* running and evaluateLine goes on to the next rule; and no match of a line
\* is posted twice in a pass.
C15_HttpErrorReported ==
  [][/\ (epc = "post" /\ posts' # posts /\ posts'[Len(posts')].resp # "200")
        => /\ running' /\ ri' = ri + 1 /\ epc' = "rule"
           /\ Len(msgs') = Len(msgs) + 1
           /\ msgs'[Len(msgs')].msg # "OK"
     /\ Len(posts') > Len(posts)
        => \A i \in 1..Len(posts) :
             <<posts[i].lineNo, posts[i].rule>>
               # <<posts'[Len(posts')].lineNo, posts'[Len(posts')].rule>>]_vars

\* C19: a pass under way is never left without a step to take: the goroutine
\* that waits for the answer to a POST gets one, or gives the POST up, so
\* that the pass goes on to its store.
C19_PassNeverStuck ==
  (running /\ InPass("wg")) => ENABLED NextEval

\* the starts of the matches of the pattern in the line
MatchStarts(re, ln) ==
  {i \in 1..(Len(ln) + 1) : MatchEnd(Compile(re), 1, ln, i) # 0}

\* the text of the match that starts first
LeftmostMatch(re, ln) ==
  LET i == CHOOSE j \in MatchStarts(re, ln) :
             \A k \in MatchStarts(re, ln) : j <= k
  IN SubSeq(ln, i, MatchEnd(Compile(re), 1, ln, i) - 1)

\* the rule at hand is a Web Request rule with an http URL and a pattern
\* that compiles
AtSearch ==
  /\ AtRule
  /\ Setting.RegExp # <<>> /\ Valid(Setting.RegExp)
  /\ Setting.Type = "Web Request" /\ StartsWithHttp(Setting.URL)

Post(value) ==
  [rule |-> ri, lineNo |-> Len(evaluated), url |-> Setting.URL,
   value |-> value, title |-> Setting.Title, resp |-> "none"]

\* C20 as stated: whenever the pattern has a match anywhere in the line, the
\* text of its leftmost match is posted with the rule's title.
C20_FoundIsPosted ==
  [][(AtSearch /\ MatchStarts(Setting.RegExp, line) # {})
     => posts' = Append(posts, Post(LeftmostMatch(Setting.RegExp, line)))]_vars

\* C20, amended: when the pattern has a match anywhere in the line and its
\* leftmost match is not empty, the text of that match (not the line) is
\* posted to the rule's URL with the rule's title; when the leftmost match
\* is empty, or there is no match, nothing is posted.
C20_LeftmostMatchPosted ==
  [][AtSearch
     => IF /\ MatchStarts(Setting.RegExp, line) # {}
           /\ LeftmostMatch(Setting.RegExp, line) # <<>>
        THEN posts' = Append(posts, Post(LeftmostMatch(Setting.RegExp, line)))
        ELSE posts' = posts]_vars

\* the pattern ERROR.* has posted "ERROR disk full", a part of its line
C20_Witness ==
  \E i \in 1..Len(posts) :
    /\ Settings[posts[i].rule].RegExp = PatError
    /\ evaluated[posts[i].lineNo].line = ErrorLine
    /\ posts[i].value = <<"E", "R", "R", "O", "R", " ",
                          "d", "i", "s", "k", " ", "f", "u", "l", "l">>
    /\ posts[i].title = "error"
    /\ posts[i].url = UrlOk

\* the watcher goroutine receives an event
EventStep == events # <<>> /\ events' = Tail(events)
\* the watcher goroutine calls ReadFile
WatcherPassStarts == pc["wg"] = "none" /\ pc'["wg"] = "open"

\* C16: while the directory is subscribed, an event whose path is the
\* directory path joined with the current file name starts exactly one pass,
\* on that path, and any other event starts no pass and leaves the cursor,
\* the target and the rules as they are.
C16_OnlyTargetEventStartsPass ==
  [][EventStep
     => /\ watching # ""
        /\ IF Head(events) = <<LogPath, targetFileName>>
           THEN /\ WatcherPassStarts
                /\ ppath'["wg"] = Head(events)
                /\ npass' = npass + 1
                /\ pc'["fe"] = pc["fe"]
           ELSE UNCHANGED <<passVars, npass>>
        /\ UNCHANGED <<lastOffset, LogPath, targetFileName, Settings>>]_vars

\* the watcher goroutine has received an event of the target and has called
\* ReadFile on it
C16_Witness ==
  /\ pc["wg"] = "open"
  /\ ppath["wg"] = <<LogPath, targetFileName>>

\* C17 as stated: once the goroutine has received an error of the
\* subscription, the directory is no longer subscribed and no event starts a
\* pass.
C17_ErrorEndsWatch ==
  [][/\ werr' = "seen" => watching' = ""
     /\ werr = "seen" => ~WatcherPassStarts]_vars

\* C17, amended: the goroutine that receives an error of the subscription
\* only logs it: the directory stays subscribed (Watching), cursor, target,
\* waiting events and passes are as before, and nothing subscribes again
\* afterwards.
C17_ErrorKeepsWatch ==
  [][/\ (werr = "none" /\ werr' = "seen")
        => /\ watching' = watching /\ watching # ""
           /\ UNCHANGED <<lastOffset, LogPath, targetFileName, events,
                          passVars, running>>
     /\ werr = "seen" => watching' = watching]_vars

\* after an error was received, an event of the target has started a pass
C17_Witness ==
  werr = "seen" /\ pc["wg"] = "open" /\ watching # ""

\* C18: once a stop is requested, no event that comes later starts a pass
\* and the directory is unsubscribed by the time such an event is received.
C18_StopEndsWatch ==
  [][stopRequested => (~WatcherPassStarts /\ (EventStep => watching = ""))]_vars

PostBefore(i, j) ==
  \/ posts[i].lineNo < posts[j].lineNo
  \/ posts[i].lineNo = posts[j].lineNo /\ posts[i].rule < posts[j].rule

\* C25: the lines of a pass are evaluated in file order, and the requests
\* are sent in the order of (line, rule), each one only after the one before
\* it has come back; a request still on its way belongs to the line being
\* evaluated, and the pass is at its store only when every request has come
\* back and no line is left.
C25_LinesSynchronousInOrder ==
  /\ \A i \in 1..Len(evaluated) :
       evaluated[i].line = CompleteLines(fs[Target])[i]
  /\ \A i \in 1..(Len(posts) - 1) :
       posts[i].resp # "none" /\ PostBefore(i, i + 1)
  /\ \A i \in 1..Len(posts) :
       posts[i].resp = "none"
       => (epc = "post" /\ pc["wg"] = "scan" /\ posts[i].lineNo = Len(evaluated))
  /\ pc["wg"] \in {"store", "none"}
     => (tokens = <<>> /\ \A i \in 1..Len(posts) : posts[i].resp # "none")

\* a pass is at its store after requests for two lines, two rules each
C25_Witness ==
  /\ pc["wg"] = "store"
  /\ Len(posts) = 4
  /\ posts[1].lineNo = 1 /\ posts[2].lineNo = 1
  /\ posts[3].lineNo = 2 /\ posts[4].lineNo = 2
  /\ posts[1].rule = 1 /\ posts[2].rule = 2

\* C28: when the leftmost match of a rule's pattern in the line is the empty
\* string, the rule yields nothing (no request, no message), even when there
\* is a match that is not empty further to the right; a request is sent only
\* for a leftmost match that is not empty.
C28_EmptyLeftmostMatchIsNoMatch ==
  [][(AtRule /\ Setting.RegExp # <<>> /\ Valid(Setting.RegExp))
     => /\ (MatchStarts(Setting.RegExp, line) # {}
             /\ LeftmostMatch(Setting.RegExp, line) = <<>>)
           => (posts' = posts /\ msgs' = msgs /\ running' /\ ri' = ri + 1)
        /\ Len(posts') > Len(posts)
           => (MatchStarts(Setting.RegExp, line) # {}
               /\ LeftmostMatch(Setting.RegExp, line) # <<>>)]_vars

\* the rule of pattern a* has been evaluated on the line "ba", where its
\* leftmost match is empty and the match "a" follows, and nothing was sent
C28_Witness ==
  /\ epc = "rule" /\ ri = 2
  /\ Settings[1].RegExp = PatStar /\ Settings[1].Type = "Web Request"
  /\ line = ShortLine
  /\ 2 \in MatchStarts(PatStar, ShortLine)
  /\ MatchEnd(Compile(PatStar), 1, ShortLine, 2) = 3
  /\ posts = <<>> /\ msgs = <<>>

\* the events of the current target that wait in watcher.Events
PendingTargetEvents ==
  {i \in 1..Len(events) : events[i] = <<LogPath, targetFileName>>}

\* C23: nothing makes a pass wait for another: a pass that opens a file
\* while another pass is reading seeks to the cursor as it is (the offset the
\* other pass started from, when nothing has stored since), and every pass
\* stores its own end position whatever the cursor has become; two passes at
\* their store that read the same file from the same offset have evaluated
\* the same lines, as far as the shorter of them goes.
C23_RacingPassesShareCursor ==
  [][\A p \in Procs :
       /\ (OpenStep(p) /\ Reading(Other(p))) => poff'[p] = lastOffset
       /\ StoreStep(p) => lastOffset' = pend[p]
       /\ (pc[p] = "store" /\ pc[Other(p)] = "store"
             /\ ppath[p] = ppath[Other(p)] /\ poff[p] = poff[Other(p)]
             /\ Len(LinesOfPass(pid[p])) <= Len(LinesOfPass(pid[Other(p)])))
          => LinesOfPass(pid[p])
               = SubSeq(LinesOfPass(pid[Other(p)]), 1, Len(LinesOfPass(pid[p])))]_vars

\* a pass of the frontend and a pass of the watcher goroutine have read the
\* same file from the same offset, both have handed a line to evaluateLine
\* (the same line, twice) and both are about to store their cursor
C23_Witness ==
  /\ pc["fe"] = "store" /\ pc["wg"] = "store"
  /\ ppath["fe"] = ppath["wg"]
  /\ poff["fe"] = poff["wg"]
  /\ LinesOfPass(pid["fe"]) # <<>> /\ LinesOfPass(pid["wg"]) # <<>>

\* C24: while a pass of the watcher goroutine is in flight and an event of
\* the target waits to start the pass that follows it, a further trigger
\* starts no pass; and at most one event of the target waits during a pass.
C24_TriggersCoalesce ==
  [][/\ (InPass("wg") /\ PendingTargetEvents # {})
        => ~(pc["fe"] = "none" /\ pc'["fe"] = "open")
     /\ InPass("wg") => Cardinality(PendingTargetEvents) <= 1]_vars

\* C26: starting the watch leaves the cursor where the pass of getLogFiles
\* stored it, so that the first pass of the watcher goroutine, when it is the
\* pass right after that one and on the same file, seeks to the position
\* that pass stored.
C26_WatchStartKeepsCursor ==
  [][/\ (fpc = "watch" /\ fpc' = "idle" /\ running') => lastOffset' = lastOffset
     /\ (OpenStep("wg") /\ pid["wg"] = 2 /\ pid["fe"] = 1
           /\ pc["fe"] = "none" /\ ppath["wg"] = ppath["fe"])
        => poff'["wg"] = pend["fe"]]_vars


\* the text between the first "(" of ln and the ")" that follows it
BetweenParens(ln) ==
  LET i == IndexOf(ln, <<"(">>, 1)
      j == IndexOf(ln, <<")">>, i + 1)
  IN SubSeq(ln, i + 1, j - 1)

\* the text after the first "[Behaviour] Joining " of ln up to the next colon
AfterMarkerToColon(ln) ==
  LET i == IndexOf(ln, JoinMarker, 1) + Len(JoinMarker)
      j == IndexOf(ln, <<":">>, i)
  IN SubSeq(ln, i, IF j = 0 THEN Len(ln) ELSE j - 1)

\* evaluateLine of the earlier version has dealt with the line: it has
\* returned, it is in the http.Post of PostWorldID, or it has ended the process
LegacyStep == epc = "rule" /\ (epc' # "rule" \/ (running /\ ~running'))

\* C21: every "user authenticated" line yields as user id the text between
\* the parentheses, every "joining world" line (the marker followed by
\* wrld_) yields as world id the text after the marker up to the next colon,
\* and a recognized line never raises an error.
C21_RecognizedLinesYield ==
  [][LegacyStep =>
       /\ IsUserLine(line) => (running' /\ userID' = BetweenParens(line))
       /\ (IsJoinLine(line) /\ ~IsUserLine(line)) =>
             /\ running'
             /\ Len(posts') = Len(posts) + 1
             /\ posts'[Len(posts')].world = AfterMarkerToColon(line)]_vars

\* the user id of the last "user authenticated" line among the first n
\* evaluated lines, the empty string when there is none
RECURSIVE LastUserID(_)
LastUserID(n) ==
  IF n = 0 THEN <<>>
  ELSE IF IsUserLine(evaluated[n].line) THEN BetweenParens(evaluated[n].line)
  ELSE LastUserID(n - 1)

\* C29: the user id in the URL of a world-history POST is the one of the most
\* recent "User Authenticated" line evaluated before the joining line, kept
\* across passes and cursor resets, and the empty string when there has been
\* none; a line with both markers yields the user id and no POST.
C29_PostCarriesLatestUser ==
  /\ \A k \in 1..Len(posts) :
       /\ posts[k].user = LastUserID(posts[k].lineNo - 1)
       /\ IsJoinLine(evaluated[posts[k].lineNo].line)
       /\ ~IsUserLine(evaluated[posts[k].lineNo].line)
  /\ running =>
       userID = LastUserID(IF epc = "rule" THEN Len(evaluated) - 1
                           ELSE Len(evaluated))

\* ResetOffset has been called, and a joining line of the second pass has
\* been posted with the user id that a line of the first pass gave
C29_Witness ==
  /\ fpc = "setfn"
  /\ \E k \in 1..Len(posts) :
       /\ evaluated[posts[k].lineNo].pass = 2
       /\ posts[k].user # <<>>
       /\ \E m \in 1..(posts[k].lineNo - 1) : IsUserLine(evaluated[m].line)
       /\ \A m \in 1..(posts[k].lineNo - 1) :
            IsUserLine(evaluated[m].line) => evaluated[m].pass = 1


\* the step is a call of UpdateSetting
UpdateStep == Settings' # Settings \/ updAt' # updAt

\* pass p began after the last call of UpdateSetting
BeganAfterUpdate(p) == pc[p] = "scan" /\ pid[p] > updAt

\* C27: UpdateSetting changes the rule list only: the cursor, the watch
\* target and what the passes have read and sent stay as they are, and in a
\* pass that began after the update every line goes through the new list
\* and every request comes from a rule of the new list.
C27_UpdateChangesRulesOnly ==
  [][/\ UpdateStep =>
          UNCHANGED <<lastOffset, LogPath, targetFileName, watching, evaluated,
                      tokens, line, ranged, ri, posts, passVars>>
     /\ \A p \in Procs :
          /\ (BeganAfterUpdate(p) /\ epc \in {"rule", "post"}) =>
                ranged = Settings
          /\ (BeganAfterUpdate(p) /\ Len(posts') = Len(posts) + 1) =>
                LET sent == posts'[Len(posts')] IN
                /\ sent.rule <= Len(Settings)
                /\ sent.title = Settings[sent.rule].Title
                /\ sent.url = Settings[sent.rule].URL
                /\ sent.value = FindString(Settings[sent.rule].RegExp, line)]_vars

\* the second pass sent the first line under the old list, UpdateSetting
\* replaced the list, and the third pass sent the next line under the new one
C27_Witness ==
  /\ Len(posts) = 2
  /\ updAt = 2
  /\ lastOffset > 0
  /\ Settings = <<Rule("new", "Web Request", UrlOk, PatAny)>>
  /\ posts[1].title = "old" /\ evaluated[posts[1].lineNo].pass = 2
  /\ posts[2].title = "new" /\ evaluated[posts[2].lineNo].pass = 3
  /\ posts[1].lineNo < posts[2].lineNo


\* what a call of withRetry has done so far is what its contract allows
RetryWithinContract ==
  LET n == Len(retry.outs)
      o == retry.opts
  IN /\ n <= o.maxRetries + 1
     /\ \A k \in 1..(n - 1) : retry.outs[k] \in NetworkErrors
     /\ retry.at = "returned" <=> (n > 0 /\ retry.outs[n] = <<"ok">>)
     /\ retry.at = "thrown" =>
          /\ n > 0
          /\ retry.thrown = retry.outs[n]
          /\ retry.outs[n] \in OtherErrors \/ n = o.maxRetries + 1
     /\ (n > 0 /\ retry.outs[n] \in OtherErrors) => retry.at = "thrown"
     /\ (n = o.maxRetries + 1 /\ retry.outs[n] \in NetworkErrors) =>
          retry.at = "thrown"
     /\ Len(retry.delays) <= n
     /\ \A k \in 1..Len(retry.delays) :
          retry.delays[k] =
            Min(o.baseDelay * Pow(o.backoffMultiplier, k - 1), o.maxDelay)

\* C30: withRetry calls the operation at most maxRetries+1 times, returns at
\* the first success, retries only after a network-class error, rethrows a
\* non-network error at once and the last error when the attempts are used
\* up, sleeps min(baseDelay * backoffMultiplier^k, maxDelay) before retry k
\* (k from 0), and always ends.
C30_RetryBoundedAndEnds ==
  /\ []RetryWithinContract
  /\ <>(retry.at \in {"returned", "thrown"})

\* with the default options, four network errors in a row: three delays,
\* and the last error thrown
C30_Witness ==
  /\ retry.opts = DefaultRetryOptions
  /\ retry.at = "thrown"
  /\ Len(retry.outs) = DefaultMaxRetries + 1
  /\ retry.thrown \in NetworkErrors
  /\ Len(retry.delays) = DefaultMaxRetries
  /\ retry.delays[1] = DefaultBaseDelay
  /\ retry.delays[2] = DefaultBaseDelay * DefaultBackoffMultiplier

====
